---- MODULE Spec2Model ----
(***************************************************************************)
(* Model of the prefetch job tracker (app/api/routes.py) and of the        *)
(* browser GUI over the table core (app/web.py, app/core.py).              *)
(*                                                                         *)
(* Prefetch part: the job registry maps a job id to a reference to a       *)
(* JobStatus object on the heap.  start_prefetch and the worker replace    *)
(* or mutate those objects while holding the registry lock; get_status     *)
(* looks the reference up under the lock and returns the object itself,    *)
(* whose fields are read for the response after the lock is released.      *)
(***************************************************************************)
EXTENDS Integers, Sequences, FiniteSets, TLC

\* ------------------------------------------------------------------ bounds
MaxJobs == 1
MaxFiles == 2
MaxProjects == 2
MaxRejects == 1
MaxTokens == 2
MaxRequests == 4
MaxLen == 3
MaxCols == 2

\* --------------------------------------------------------------- variables
VARIABLES
    heap,        \* JobStatus objects, by reference (index)
    jobs,        \* _jobs: job id -> reference into heap
    jobs_lock,   \* _jobs_lock: 0 when free, else the job id of the holding worker
    nextId,      \* the next fresh identifier uuid4 hands out
    args,        \* job id -> the arguments given to background_tasks.add_task
    hpc,         \* job id -> position of its start_prefetch handler
    returned,    \* job ids returned in a PrefetchResponse
    rejects,     \* number of start_prefetch requests answered 422
    wpc,         \* job id -> position of its _download_job worker
    fi,          \* job id -> index of the file the worker is at
    pj,          \* job id -> index of the project the worker is at
    completed,   \* job id -> the worker's local counter `completed`
    downloads,   \* job id -> file index -> hf_hub_download calls made
    copies,      \* job id -> file index -> project index -> copy2 calls made
    raised,      \* job id -> TRUE once a step of the worker raised
    committed,   \* job id -> records the registry entry held with the lock free
    ppc,         \* position of the get_status request in flight
    pref,        \* the reference get_status read from the registry
    presp,       \* the response being built from that object
    lastSeen,    \* job id, status and progress of the latest response the poller was given
    DATASETS,    \* web.DATASETS: token -> uploaded table
    RESULTS,     \* web.RESULTS: token -> result of the latest operation
    nextToken,   \* the next fresh token uuid4 hands out
    nreq,        \* number of GUI requests served
    guiResp,     \* the request last served by the GUI and its response
    cpc,         \* position of the CLI invocation in main
    cargs,       \* the parsed arguments of the CLI invocation
    cdf,         \* main's df: the loaded table
    result_df,   \* main's result_df
    exit_code,   \* the value main returned (-1 while it runs)
    crendered,   \* the table print_dataframe wrote to the output stream
    cwritten,    \* the bytes export_result wrote to the export path
    cstderr      \* the messages main wrote to the error stream

prefetchVars == <<heap, jobs, jobs_lock, nextId, args, hpc, returned, rejects,
                  wpc, fi, pj, completed, downloads, copies, raised, committed,
                  ppc, pref, presp, lastSeen>>

guiVars == <<DATASETS, RESULTS, nextToken, nreq, guiResp>>

cliVars == <<cpc, cargs, cdf, result_df, exit_code, crendered, cwritten, cstderr>>

vars == <<prefetchVars, guiVars, cliVars>>

JobIds == 1..MaxJobs
RepoIds == {"", "org/model"}
\* file paths and project names are represented by their position in the list
Lists(n) == {[i \in 1..k |-> i] : k \in 0..n}
Requests == [repo_id : RepoIds, project_names : Lists(MaxProjects), files : Lists(MaxFiles)]

Max(a, b) == IF a >= b THEN a ELSE b

\* ----------------------------------------------------------- progress values
\* a progress float is kept as the exact fraction num/den
Zero == [num |-> 0, den |-> 1]
One == [num |-> 1, den |-> 1]
Leq(a, b) == a.num * b.den <= b.num * a.den

Progress_Remaining(done, total) ==
    IF total - done >= total THEN One ELSE [num |-> total - done, den |-> total]

\* min(1.0, completed / total)
Progress(done, total) ==
    IF done >= total THEN One ELSE [num |-> done, den |-> total]

\* total = max(1, len(files) * max(1, len(project_names)))
Total(j) == Max(1, Len(args[j].files) * Max(1, Len(args[j].project_names)))

\* ------------------------------------------------------------ JobStatus
JobStatus(id, st, pr, msg, dl, tot) ==
    [job_id |-> id, status |-> st, progress |-> pr, message |-> msg,
     downloaded_files |-> dl, total_files |-> tot]

QueuedStatus(id, req) ==
    JobStatus(id, "queued", Zero, "None", 0,
              Len(req.files) * Max(1, Len(req.project_names)))

RunningStatus(id, files) ==
    JobStatus(id, "running", Zero, "None", 0, Len(files))

Terminal(st) == st \in {"completed", "failed"}

\* the record the registry holds for job j
Entry(j) == heap[jobs[j]]

\* ----------------------------------------------------------- start_prefetch
Validate_NoProjectCheck(req) ==
    IF req.repo_id = "" THEN "repo_id required"
    ELSE IF req.files = <<>> THEN "At least one file to prefetch required"
    ELSE "ok"

Validate(req) ==
    IF req.repo_id = "" THEN "repo_id required"
    ELSE IF req.project_names = <<>> THEN "At least one project name required"
    ELSE IF req.files = <<>> THEN "At least one file to prefetch required"
    ELSE "ok"

NoArgs == [repo_id |-> "", project_names |-> <<>>, files |-> <<>>]

PrefetchInit ==
    /\ heap = <<>>
    /\ jobs = <<>>
    /\ jobs_lock = 0
    /\ nextId = 1
    /\ args = [j \in JobIds |-> NoArgs]
    /\ hpc = [j \in JobIds |-> "none"]
    /\ returned = {}
    /\ rejects = 0
    /\ wpc = [j \in JobIds |-> "idle"]
    /\ fi = [j \in JobIds |-> 0]
    /\ pj = [j \in JobIds |-> 0]
    /\ completed = [j \in JobIds |-> 0]
    /\ downloads = [j \in JobIds |-> [f \in 1..MaxFiles |-> 0]]
    /\ copies = [j \in JobIds |-> [f \in 1..MaxFiles |-> [p \in 1..MaxProjects |-> 0]]]
    /\ raised = [j \in JobIds |-> FALSE]
    /\ committed = [j \in JobIds |-> {}]
    /\ ppc = "idle"
    /\ pref = 0
    /\ presp = [code |-> 0]
    /\ lastSeen = [code |-> 0]

workerVars == <<wpc, fi, pj, completed, downloads, copies, raised>>
pollVars == <<ppc, pref, presp, lastSeen>>

\* lines 110-115: a request with an empty field is answered 422
StartPrefetchReject(req) ==
    /\ Validate(req) # "ok"
    /\ rejects < MaxRejects
    /\ rejects' = rejects + 1
    /\ UNCHANGED <<heap, jobs, jobs_lock, nextId, args, hpc, returned,
                   workerVars, committed, pollVars>>
    /\ UNCHANGED <<guiVars, cliVars>>

\* lines 110-118: validation passes, a fresh id is drawn, the task is added
StartPrefetchSchedule(req) ==
    /\ Validate(req) = "ok"
    /\ nextId <= MaxJobs
    /\ nextId' = nextId + 1
    /\ args' = [args EXCEPT ![nextId] = req]
    /\ hpc' = [hpc EXCEPT ![nextId] = "scheduled"]
    /\ UNCHANGED <<heap, jobs, jobs_lock, returned, rejects,
                   workerVars, committed, pollVars>>
    /\ UNCHANGED <<guiVars, cliVars>>

\* lines 120-123: the queued record is stored under the lock, the id returned
StartPrefetchStore(j) ==
    /\ hpc[j] = "scheduled"
    /\ jobs_lock = 0
    /\ heap' = Append(heap, QueuedStatus(j, args[j]))
    /\ jobs' = (j :> (Len(heap) + 1)) @@ jobs
    /\ committed' = [committed EXCEPT ![j] = @ \cup {QueuedStatus(j, args[j])}]
    /\ returned' = returned \cup {j}
    /\ hpc' = [hpc EXCEPT ![j] = "returned"]
    /\ UNCHANGED <<jobs_lock, nextId, args, rejects, workerVars, pollVars>>
    /\ UNCHANGED <<guiVars, cliVars>>

\* ------------------------------------------------------------ _download_job
\* the background task runs once the response of its request has been sent
BackgroundReady_OnAddTask(j) == hpc[j] \in {"scheduled", "returned"}

BackgroundReady(j) == hpc[j] = "returned"

\* where the worker goes when a download or copy step raises
OnRaise_Swallow == "done"

OnRaise == "except"

\* where the loops go after the progress write of one copy
AfterCopy_FirstProjectOnly(j) ==
    IF fi[j] < Len(args[j].files) THEN "download" ELSE "finish"

AfterCopy(j) ==
    IF pj[j] < Len(args[j].project_names) THEN "copy"
    ELSE IF fi[j] < Len(args[j].files) THEN "download"
    ELSE "finish"

\* lines 70-74: the registry entry is replaced by a fresh running record
WorkerStart(j) ==
    /\ wpc[j] = "idle"
    /\ BackgroundReady(j)
    /\ jobs_lock = 0
    /\ heap' = Append(heap, RunningStatus(j, args[j].files))
    /\ jobs' = (j :> (Len(heap) + 1)) @@ jobs
    /\ committed' = [committed EXCEPT ![j] = @ \cup {RunningStatus(j, args[j].files)}]
    /\ completed' = [completed EXCEPT ![j] = 0]
    /\ fi' = [fi EXCEPT ![j] = 0]
    /\ pj' = [pj EXCEPT ![j] = 0]
    /\ wpc' = [wpc EXCEPT ![j] = IF args[j].files = <<>> THEN "finish" ELSE "download"]
    /\ UNCHANGED <<jobs_lock, nextId, args, hpc, returned, rejects,
                   downloads, copies, raised, pollVars>>
    /\ UNCHANGED <<guiVars, cliVars>>

\* line 78: hf_hub_download of the next file returns or raises
WorkerDownload(j) ==
    /\ wpc[j] = "download"
    /\ fi' = [fi EXCEPT ![j] = @ + 1]
    /\ pj' = [pj EXCEPT ![j] = 0]
    /\ downloads' = [downloads EXCEPT ![j][fi[j] + 1] = @ + 1]
    /\ \E ok \in BOOLEAN :
        /\ raised' = [raised EXCEPT ![j] = ~ok]
        /\ wpc' = [wpc EXCEPT ![j] =
                     IF ~ok THEN OnRaise
                     ELSE IF args[j].project_names = <<>>
                          THEN (IF fi[j] + 1 < Len(args[j].files) THEN "download" ELSE "finish")
                          ELSE "copy"]
    /\ UNCHANGED <<heap, jobs, jobs_lock, nextId, args, hpc, returned, rejects,
                   completed, copies, committed, pollVars>>
    /\ UNCHANGED <<guiVars, cliVars>>

\* lines 80-86: mkdir and copy2 for the next project return or raise
WorkerCopy(j) ==
    /\ wpc[j] = "copy"
    /\ pj' = [pj EXCEPT ![j] = @ + 1]
    /\ copies' = [copies EXCEPT ![j][fi[j]][pj[j] + 1] = @ + 1]
    /\ \E ok \in BOOLEAN :
        /\ raised' = [raised EXCEPT ![j] = ~ok]
        /\ completed' = [completed EXCEPT ![j] = IF ok THEN @ + 1 ELSE @]
        /\ wpc' = [wpc EXCEPT ![j] = IF ok THEN "update" ELSE OnRaise]
    /\ UNCHANGED <<heap, jobs, jobs_lock, nextId, args, hpc, returned, rejects,
                   fi, downloads, committed, pollVars>>
    /\ UNCHANGED <<guiVars, cliVars>>

\* lines 87-89: the lock is taken and downloaded_files written in place
WorkerSetDownloaded(j) ==
    /\ wpc[j] = "update"
    /\ jobs_lock = 0
    /\ jobs_lock' = j
    /\ heap' = [heap EXCEPT ![jobs[j]].downloaded_files = completed[j]]
    /\ wpc' = [wpc EXCEPT ![j] = "update_progress"]
    /\ UNCHANGED <<jobs, nextId, args, hpc, returned, rejects,
                   fi, pj, completed, downloads, copies, raised, committed, pollVars>>
    /\ UNCHANGED <<guiVars, cliVars>>

\* lines 90-91: progress written in place, the lock released
WorkerSetProgress(j) ==
    /\ wpc[j] = "update_progress"
    /\ heap' = [heap EXCEPT ![jobs[j]].progress = Progress(completed[j], Total(j))]
    /\ jobs_lock' = 0
    /\ committed' = [committed EXCEPT ![j] = @ \cup {heap'[jobs[j]]}]
    /\ wpc' = [wpc EXCEPT ![j] = AfterCopy(j)]
    /\ UNCHANGED <<jobs, nextId, args, hpc, returned, rejects,
                   fi, pj, completed, downloads, copies, raised, pollVars>>
    /\ UNCHANGED <<guiVars, cliVars>>

\* lines 93-95: the lock is taken and status set to completed
WorkerSetCompleted(j) ==
    /\ wpc[j] = "finish"
    /\ jobs_lock = 0
    /\ jobs_lock' = j
    /\ heap' = [heap EXCEPT ![jobs[j]].status = "completed"]
    /\ wpc' = [wpc EXCEPT ![j] = "finish_message"]
    /\ UNCHANGED <<jobs, nextId, args, hpc, returned, rejects,
                   fi, pj, completed, downloads, copies, raised, committed, pollVars>>
    /\ UNCHANGED <<guiVars, cliVars>>

\* line 96
WorkerSetCompletedMessage(j) ==
    /\ wpc[j] = "finish_message"
    /\ heap' = [heap EXCEPT ![jobs[j]].message = "Prefetch complete"]
    /\ wpc' = [wpc EXCEPT ![j] = "finish_progress"]
    /\ UNCHANGED <<jobs, jobs_lock, nextId, args, hpc, returned, rejects,
                   fi, pj, completed, downloads, copies, raised, committed, pollVars>>
    /\ UNCHANGED <<guiVars, cliVars>>

\* lines 97-98: progress set to 1.0, the lock released
WorkerSetCompletedProgress(j) ==
    /\ wpc[j] = "finish_progress"
    /\ heap' = [heap EXCEPT ![jobs[j]].progress = One]
    /\ jobs_lock' = 0
    /\ committed' = [committed EXCEPT ![j] = @ \cup {heap'[jobs[j]]}]
    /\ wpc' = [wpc EXCEPT ![j] = "done"]
    /\ UNCHANGED <<jobs, nextId, args, hpc, returned, rejects,
                   fi, pj, completed, downloads, copies, raised, pollVars>>
    /\ UNCHANGED <<guiVars, cliVars>>

\* lines 100-103: the handler takes the lock and sets status to failed
WorkerSetFailed(j) ==
    /\ wpc[j] = "except"
    /\ jobs_lock = 0
    /\ jobs_lock' = j
    /\ heap' = [heap EXCEPT ![jobs[j]].status = "failed"]
    /\ wpc' = [wpc EXCEPT ![j] = "except_message"]
    /\ UNCHANGED <<jobs, nextId, args, hpc, returned, rejects,
                   fi, pj, completed, downloads, copies, raised, committed, pollVars>>
    /\ UNCHANGED <<guiVars, cliVars>>

\* lines 104-105: the error message is set, the lock released
WorkerSetFailedMessage(j) ==
    /\ wpc[j] = "except_message"
    /\ heap' = [heap EXCEPT ![jobs[j]].message = "Error"]
    /\ jobs_lock' = 0
    /\ committed' = [committed EXCEPT ![j] = @ \cup {heap'[jobs[j]]}]
    /\ wpc' = [wpc EXCEPT ![j] = "done"]
    /\ UNCHANGED <<jobs, nextId, args, hpc, returned, rejects,
                   fi, pj, completed, downloads, copies, raised, pollVars>>
    /\ UNCHANGED <<guiVars, cliVars>>

Worker(j) ==
    \/ WorkerStart(j)
    \/ WorkerDownload(j)
    \/ WorkerCopy(j)
    \/ WorkerSetDownloaded(j)
    \/ WorkerSetProgress(j)
    \/ WorkerSetCompleted(j)
    \/ WorkerSetCompletedMessage(j)
    \/ WorkerSetCompletedProgress(j)
    \/ WorkerSetFailed(j)
    \/ WorkerSetFailedMessage(j)

\* --------------------------------------------------------------- get_status
registryVars == <<heap, jobs, jobs_lock, nextId, args, hpc, returned, rejects,
                  workerVars, committed>>

NoResp == [code |-> 0]

NotFound(id) == [code |-> 404, job_id |-> id, known |-> id \in returned]

\* lines 128-131: the reference is read under the lock; None is answered 404
GetStatusLookup(id) ==
    /\ ppc = "idle"
    /\ jobs_lock = 0
    /\ IF id \in DOMAIN jobs
       THEN /\ pref' = jobs[id]
            /\ presp' = [code |-> 200, known |-> id \in returned,
                         job_id |-> heap[jobs[id]].job_id]
            /\ ppc' = "status"
       ELSE /\ pref' = 0
            /\ presp' = NotFound(id)
            /\ ppc' = "respond"
    /\ UNCHANGED <<registryVars, lastSeen>>
    /\ UNCHANGED <<guiVars, cliVars>>

\* line 132: the returned object's fields are read for the response body,
\* in declaration order, with the lock no longer held
GetStatusReadStatus ==
    /\ ppc = "status"
    /\ presp' = [status |-> heap[pref].status] @@ presp
    /\ ppc' = "progress"
    /\ UNCHANGED <<registryVars, pref, lastSeen>>
    /\ UNCHANGED <<guiVars, cliVars>>

GetStatusReadProgress ==
    /\ ppc = "progress"
    /\ presp' = [progress |-> heap[pref].progress] @@ presp
    /\ ppc' = "message"
    /\ UNCHANGED <<registryVars, pref, lastSeen>>
    /\ UNCHANGED <<guiVars, cliVars>>

GetStatusReadMessage ==
    /\ ppc = "message"
    /\ presp' = [message |-> heap[pref].message] @@ presp
    /\ ppc' = "counts"
    /\ UNCHANGED <<registryVars, pref, lastSeen>>
    /\ UNCHANGED <<guiVars, cliVars>>

GetStatusReadCounts ==
    /\ ppc = "counts"
    /\ presp' = [downloaded_files |-> heap[pref].downloaded_files,
                 total_files |-> heap[pref].total_files] @@ presp
    /\ ppc' = "respond"
    /\ UNCHANGED <<registryVars, pref, lastSeen>>
    /\ UNCHANGED <<guiVars, cliVars>>

\* the response reaches the poller, which remembers the job, status and
\* progress of the latest job status it was given
GetStatusRespond ==
    /\ ppc = "respond"
    /\ lastSeen' = IF presp.code = 200
                   THEN [code |-> 200, job_id |-> presp.job_id,
                         status |-> presp.status, progress |-> presp.progress]
                   ELSE lastSeen
    /\ ppc' = "idle"
    /\ pref' = 0
    /\ presp' = NoResp
    /\ UNCHANGED registryVars
    /\ UNCHANGED <<guiVars, cliVars>>

GetStatus ==
    \/ \E id \in 1..(MaxJobs + 1) : GetStatusLookup(id)
    \/ GetStatusReadStatus
    \/ GetStatusReadProgress
    \/ GetStatusReadMessage
    \/ GetStatusReadCounts
    \/ GetStatusRespond

\* =================================================================== tables
\* A string is a sequence of characters; a column name is a string.  A table
\* has an ordered list of column names and a sequence of rows, each row a
\* function from the column names to values.
Range(q) == {q[i] : i \in 1..Len(q)}

ColA == <<"a">>
ColB == <<"b">>

Row(a, b) == (ColA :> a) @@ (ColB :> b)

TableAB == [columns |-> <<ColA, ColB>>, rows |-> <<Row(1, 0), Row(0, 1), Row(1, 1)>>]
TableB == [columns |-> <<ColB>>, rows |-> <<(ColB :> 1)>>]

Ok(v) == [ok |-> TRUE, value |-> v]
Raise(kind, what) == [ok |-> FALSE, error |-> kind, detail |-> what]

\* ------------------------------------------------------------------- core.py
\* load_dataframe: the upload either parses into its table or raises
LoadDataframe(content) ==
    IF content.valid THEN Ok(content.table) ELSE Raise("ValueError", <<>>)

\* df.head(n): the first n rows, or all but the last -n rows for n < 0
CoreOpHead(df, n) ==
    LET len == Len(df.rows)
        k == IF n >= 0 THEN (IF n < len THEN n ELSE len)
                       ELSE (IF len + n > 0 THEN len + n ELSE 0)
    IN Ok([columns |-> df.columns, rows |-> SubSeq(df.rows, 1, k)])

\* df.describe: percentiles (in percent) must lie in [0, 1] and the table
\* must have columns; the statistics rows are kept to the count row
CoreOpDescribe(df, include_all, percentiles) ==
    IF \E i \in 1..Len(percentiles) : percentiles[i] < 0 \/ percentiles[i] > 100
    THEN Raise("ValueError", percentiles)
    ELSE IF df.columns = <<>>
    THEN Raise("ValueError", <<>>)
    ELSE Ok([columns |-> df.columns,
             rows |-> <<[c \in Range(df.columns) |-> Len(df.rows)]>>])

Missing_AllRequested(df, columns) ==
    IF \A i \in 1..Len(columns) : columns[i] \in Range(df.columns) THEN <<>> ELSE columns

Missing(df, columns) ==
    SelectSeq(columns, LAMBDA c : c \notin Range(df.columns))

CoreOpSelect(df, columns) ==
    IF Missing(df, columns) # <<>>
    THEN Raise("KeyError", Missing(df, columns))
    ELSE Ok([columns |-> columns,
             rows |-> [i \in 1..Len(df.rows) |->
                         [c \in Range(columns) |-> df.rows[i][c]]]])

\* df.query: a comparison `col == val`, or an expression that does not parse
CoreOpFilter(df, query_expr) ==
    IF query_expr.kind = "malformed" THEN Raise("SyntaxError", <<>>)
    ELSE IF query_expr.col \notin Range(df.columns)
    THEN Raise("UndefinedVariableError", <<query_expr.col>>)
    ELSE Ok([columns |-> df.columns,
             rows |-> SelectSeq(df.rows, LAMBDA r : r[query_expr.col] = query_expr.val)])

\* parse_aggregations for one item `column=func,...`, given as its lexemes
ParseAggregations(agg_items) ==
    IF \E i \in 1..Len(agg_items) : "=" \notin Range(agg_items[i])
    THEN Raise("ValueError", <<>>)
    ELSE IF \E i \in 1..Len(agg_items) : Len(agg_items[i]) < 3
    THEN Raise("ValueError", <<>>)
    ELSE Ok([i \in 1..Len(agg_items) |->
               [column |-> <<agg_items[i][1]>>, func |-> agg_items[i][3]]])

RECURSIVE SumOver(_, _)
SumOver(rows, c) ==
    IF rows = <<>> THEN 0 ELSE Head(rows)[c] + SumOver(Tail(rows), c)

KeyOf(r, by) == [i \in 1..Len(by) |-> r[by[i]]]

RECURSIVE KeyLess(_, _)
KeyLess(k1, k2) ==
    IF k1 = <<>> THEN FALSE
    ELSE IF Head(k1) # Head(k2) THEN Head(k1) < Head(k2)
    ELSE KeyLess(Tail(k1), Tail(k2))

RECURSIVE SortKeys(_)
SortKeys(S) ==
    IF S = {} THEN <<>>
    ELSE LET m == CHOOSE k \in S : \A o \in S : ~KeyLess(o, k)
         IN <<m>> \o SortKeys(S \ {m})

\* op_groupby: sorted groups of the by-columns, each aggregated column
\* flattened to `column_func`
CoreOpGroupby(df, by, agg_items, dropna) ==
    IF \E i \in 1..Len(by) : by[i] \notin Range(df.columns)
    THEN Raise("KeyError", SelectSeq(by, LAMBDA c : c \notin Range(df.columns)))
    ELSE IF ~ParseAggregations(agg_items).ok THEN ParseAggregations(agg_items)
    ELSE IF by = <<>> \/ Cardinality(Range(by)) # Len(by)
    THEN Raise("ValueError", by)
    ELSE LET aggs == ParseAggregations(agg_items).value
             keys == SortKeys({KeyOf(df.rows[i], by) : i \in 1..Len(df.rows)})
             name(a) == a.column \o <<"_", a.func>>
             group(k) == SelectSeq(df.rows, LAMBDA r : KeyOf(r, by) = k)
         IN IF \E i \in 1..Len(aggs) :
                  aggs[i].column \notin Range(df.columns) \/ aggs[i].func # "sum"
            THEN Raise("KeyError", <<>>)
            ELSE Ok([columns |-> by \o [i \in 1..Len(aggs) |-> name(aggs[i])],
                     rows |-> [g \in 1..Len(keys) |->
                                 [c \in Range(by) \cup {name(aggs[i]) : i \in 1..Len(aggs)} |->
                                    IF c \in Range(by)
                                    THEN keys[g][CHOOSE i \in 1..Len(by) : by[i] = c]
                                    ELSE SumOver(group(keys[g]),
                                                 (CHOOSE a \in Range(aggs) : name(a) = c).column)]]])

Formats == {"csv", "json", "parquet"}

\* str.lower on the format names a request carries
Lower(fmt) ==
    CASE fmt = "CSV" -> "csv"
      [] fmt = "Json" -> "json"
      [] OTHER -> fmt

\* export_dataframe: csv is a header line and the values of each row in
\* column order, json the list of row objects, parquet the columnar layout
\* (which needs the parquet engine to be installed)
ExportDataframe(df, export_format, parquet_engine) ==
    LET fmt == Lower(export_format)
    IN IF fmt = "parquet" /\ ~parquet_engine
       THEN Raise("ImportError", <<>>)
       ELSE IF fmt = "csv"
       THEN Ok([format |-> "csv", header |-> df.columns,
                lines |-> [i \in 1..Len(df.rows) |->
                             [k \in 1..Len(df.columns) |-> df.rows[i][df.columns[k]]]]])
       ELSE IF fmt = "json"
       THEN Ok([format |-> "json", records |-> df.rows])
       ELSE IF fmt = "parquet"
       THEN Ok([format |-> "parquet",
                chunks |-> [k \in 1..Len(df.columns) |->
                              [name |-> df.columns[k],
                               values |-> [i \in 1..Len(df.rows) |-> df.rows[i][df.columns[k]]]]]])
       ELSE Raise("ValueError", <<>>)

\* -------------------------------------------------------------------- web.py
Chars == {"a", "b", ",", " "}
RECURSIVE StringsOfLen(_)
StringsOfLen(n) ==
    IF n = 0 THEN {<<>>}
    ELSE {<<c>> \o t : c \in Chars, t \in StringsOfLen(n - 1)}
Strings == UNION {StringsOfLen(n) : n \in 0..MaxLen}

\* a form field is absent (None) or carries a string
NoForm == [given |-> FALSE, text |-> <<>>]
Form(t) == [given |-> TRUE, text |-> t]
FormStrings == {NoForm} \cup {Form(t) : t \in Strings}

\* str.split(sep)
RECURSIVE Split(_, _)
Split(str, sep) ==
    IF sep \notin Range(str) THEN <<str>>
    ELSE LET k == CHOOSE i \in 1..Len(str) :
                     str[i] = sep /\ \A h \in 1..(i - 1) : str[h] # sep
         IN <<SubSeq(str, 1, k - 1)>> \o Split(SubSeq(str, k + 1, Len(str)), sep)

\* str.strip()
RECURSIVE LStrip(_)
LStrip(str) ==
    IF str # <<>> /\ Head(str) = " " THEN LStrip(Tail(str)) ELSE str
RECURSIVE RStrip(_)
RStrip(str) ==
    IF str # <<>> /\ str[Len(str)] = " " THEN RStrip(SubSeq(str, 1, Len(str) - 1)) ELSE str
Strip(str) == RStrip(LStrip(str))

\* [c.strip() for c in text.split(",") if c.strip()]
SplitColumns(text) ==
    LET parts == Split(text, ",")
        kept == SelectSeq(parts, LAMBDA c : Strip(c) # <<>>)
    IN [i \in 1..Len(kept) |-> Strip(kept[i])]

\* the percentile texts a form carries, as lexemes
PercentileTexts ==
    {<<>>, <<" ">>, <<"0.5">>, <<"0.5", ",", "0.9">>, <<"1.5">>, <<"abc">>}

\* float(x) of one lexeme, in percent
Float(x) ==
    CASE x = "0.5" -> Ok(50)
      [] x = "0.9" -> Ok(90)
      [] x = "1.5" -> Ok(150)
      [] OTHER -> Raise("ValueError", <<x>>)

\* [float(x) for x in percentiles.replace(",", " ").split()]
ParsePercentiles(text) ==
    LET words == SelectSeq(text, LAMBDA x : x \notin {",", " "})
    IN IF \E i \in 1..Len(words) : ~Float(words[i]).ok
       THEN Raise("ValueError", <<>>)
       ELSE Ok([i \in 1..Len(words) |-> Float(words[i]).value])

HeadCounts == {-1, 1, 5}
Queries ==
    {[kind |-> "eq", col |-> ColA, val |-> 1],
     [kind |-> "eq", col |-> <<"z">>, val |-> 1],
     [kind |-> "malformed", col |-> <<>>, val |-> 0]}
ByTexts == {<<"a">>, <<"b", ",", "a">>, <<" ", "a">>, <<"a", "a">>, <<",">>, <<"a", ",", "a">>}
AggLines ==
    {<<"a", "=", "sum">>, <<"a">>, <<"a", "=">>, <<"z", "=", "sum">>, <<"a", "=", "bogus">>}
Uploads ==
    {[valid |-> FALSE, table |-> TableB],
     [valid |-> TRUE, table |-> TableAB],
     [valid |-> TRUE, table |-> TableB]}
Tokens == 1..MaxTokens
ExportFormats == {"csv", "CSV", "json", "parquet", "xml"}

GuiInit ==
    /\ DATASETS = <<>>
    /\ RESULTS = <<>>
    /\ nextToken = 1
    /\ nreq = 0
    /\ guiResp = [op |-> "none", token |-> 0, code |-> 0, core_failed |-> FALSE,
                  input |-> <<>>, body |-> <<>>]

\* the response of one request; an exception no handler catches is a 500
Respond(op, token, code, failed, input, body) ==
    /\ nreq < MaxRequests
    /\ nreq' = nreq + 1
    /\ guiResp' = [op |-> op, token |-> token, code |-> code,
                   core_failed |-> failed, input |-> input, body |-> body]

\* bool(df) of a pandas DataFrame raises ValueError (ambiguous truth value)
DataFrameBool(df) == Raise("ValueError", <<>>)

\* lines 34-59
Upload(content) ==
    /\ LET df == LoadDataframe(content)
       IN IF ~df.ok
          THEN /\ Respond("upload", 0, 400, TRUE, <<>>, <<>>)
               /\ UNCHANGED <<DATASETS, RESULTS, nextToken>>
          ELSE /\ nextToken <= MaxTokens
               /\ DATASETS' = (nextToken :> df.value) @@ DATASETS
               /\ RESULTS' = [t \in DOMAIN RESULTS \ {nextToken} |-> RESULTS[t]]
               /\ nextToken' = nextToken + 1
               /\ Respond("upload", nextToken, 303, FALSE, <<>>, <<>>)
    /\ UNCHANGED <<prefetchVars, cliVars>>

\* lines 62-84
DatasetPage(token) ==
    /\ Respond("dataset_page", token,
               IF token \in DOMAIN DATASETS THEN 200 ELSE 404, FALSE, <<>>, <<>>)
    /\ UNCHANGED <<DATASETS, RESULTS, nextToken>>
    /\ UNCHANGED <<prefetchVars, cliVars>>

\* what an operation endpoint does with the outcome of its Table Core call:
\* a result is stored and answered 303; a raise that the handler catches is
\* answered 400, one it does not catch is an unhandled error (500)
Finish(op, token, input, r, caught) ==
    IF r.ok
    THEN /\ RESULTS' = (token :> r.value) @@ RESULTS
         /\ Respond(op, token, 303, FALSE, input, <<>>)
    ELSE /\ RESULTS' = RESULTS
         /\ Respond(op, token, IF caught THEN 400 ELSE 500, TRUE, input, <<>>)

NotFoundPage(op, token, input) ==
    /\ RESULTS' = RESULTS
    /\ Respond(op, token, 404, FALSE, input, <<>>)

\* lines 87-93 reading the token's previous result when there is one
WebOpHead_FromPreviousResult(token, num_rows) ==
    /\ IF token \notin DOMAIN DATASETS
       THEN NotFoundPage("head", token, <<>>)
       ELSE Finish("head", token, <<>>,
                   CoreOpHead(IF token \in DOMAIN RESULTS THEN RESULTS[token]
                              ELSE DATASETS[token], num_rows), FALSE)
    /\ UNCHANGED <<DATASETS, nextToken>>
    /\ UNCHANGED <<prefetchVars, cliVars>>

\* lines 87-93
WebOpHead(token, num_rows) ==
    /\ IF token \notin DOMAIN DATASETS
       THEN NotFoundPage("head", token, <<>>)
       ELSE Finish("head", token, <<>>, CoreOpHead(DATASETS[token], num_rows), FALSE)
    /\ UNCHANGED <<DATASETS, nextToken>>
    /\ UNCHANGED <<prefetchVars, cliVars>>

\* lines 96-113
WebOpDescribe(token, include_all, percentiles) ==
    /\ IF token \notin DOMAIN DATASETS
       THEN NotFoundPage("describe", token, <<>>)
       ELSE IF Strip(percentiles) # <<>> /\ ~ParsePercentiles(percentiles).ok
       THEN /\ RESULTS' = RESULTS
            /\ Respond("describe", token, 400, FALSE, <<>>, <<>>)
       ELSE LET percentiles_list ==
                    IF Strip(percentiles) # <<>>
                    THEN ParsePercentiles(percentiles).value ELSE <<>>
            IN Finish("describe", token, <<>>,
                      CoreOpDescribe(DATASETS[token], include_all, percentiles_list), FALSE)
    /\ UNCHANGED <<DATASETS, nextToken>>
    /\ UNCHANGED <<prefetchVars, cliVars>>

\* the column list the select form parses to (none when the field is absent)
Selected(columns) == IF columns.given THEN SplitColumns(columns.text) ELSE <<>>

\* lines 116-125
WebOpSelect(token, columns) ==
    /\ IF token \notin DOMAIN DATASETS
       THEN NotFoundPage("select", token, Selected(columns))
       ELSE IF ~columns.given \/ columns.text = <<>>
       THEN /\ RESULTS' = RESULTS
            /\ Respond("select", token, 400, FALSE, Selected(columns), <<>>)
       ELSE Finish("select", token, Selected(columns),
                   CoreOpSelect(DATASETS[token], Selected(columns)), FALSE)
    /\ UNCHANGED <<DATASETS, nextToken>>
    /\ UNCHANGED <<prefetchVars, cliVars>>

\* lines 128-137
WebOpFilter(token, query) ==
    /\ IF token \notin DOMAIN DATASETS
       THEN NotFoundPage("filter", token, <<>>)
       ELSE Finish("filter", token, <<>>, CoreOpFilter(DATASETS[token], query), TRUE)
    /\ UNCHANGED <<DATASETS, nextToken>>
    /\ UNCHANGED <<prefetchVars, cliVars>>

\* lines 140-157
WebOpGroupby(token, by, agg, keepna) ==
    /\ IF token \notin DOMAIN DATASETS
       THEN NotFoundPage("groupby", token, <<>>)
       ELSE LET by_cols == SplitColumns(by)
                agg_items == SelectSeq(agg, LAMBDA a : a # <<>>)
            IN Finish("groupby", token, <<>>,
                      CoreOpGroupby(DATASETS[token], by_cols, agg_items, ~keepna), TRUE)
    /\ UNCHANGED <<DATASETS, nextToken>>
    /\ UNCHANGED <<prefetchVars, cliVars>>

\* lines 160-181: `RESULTS.get(token) or DATASETS.get(token)` takes the truth
\* value of the stored result when there is one
Export(token, fmt, parquet_engine) ==
    /\ IF token \in DOMAIN RESULTS /\ ~DataFrameBool(RESULTS[token]).ok
       THEN Respond("export", token, 500, FALSE, [fmt |-> fmt, parquet_engine |-> parquet_engine], <<>>)
       ELSE LET df == IF token \in DOMAIN RESULTS THEN Ok(RESULTS[token])
                      ELSE IF token \in DOMAIN DATASETS THEN Ok(DATASETS[token])
                      ELSE Raise("None", <<>>)
                data == ExportDataframe(df.value, fmt, parquet_engine)
            IN IF ~df.ok
               THEN Respond("export", token, 404, FALSE, [fmt |-> fmt, parquet_engine |-> parquet_engine], <<>>)
               ELSE IF Lower(fmt) \notin Formats
               THEN Respond("export", token, 400, FALSE, [fmt |-> fmt, parquet_engine |-> parquet_engine], <<>>)
               ELSE IF ~data.ok
               THEN Respond("export", token, 500, TRUE, [fmt |-> fmt, parquet_engine |-> parquet_engine], <<>>)
               ELSE Respond("export", token, 200, FALSE, [fmt |-> fmt, parquet_engine |-> parquet_engine], data.value)
    /\ UNCHANGED <<DATASETS, RESULTS, nextToken>>
    /\ UNCHANGED <<prefetchVars, cliVars>>

GuiNext ==
    \/ \E content \in Uploads : Upload(content)
    \/ \E token \in Tokens : DatasetPage(token)
    \/ \E token \in Tokens, n \in HeadCounts : WebOpHead(token, n)
    \/ \E token \in Tokens, all \in BOOLEAN, pt \in PercentileTexts :
          WebOpDescribe(token, all, pt)
    \/ \E token \in Tokens, columns \in FormStrings :
          WebOpSelect(token, columns)
    \/ \E token \in Tokens, query \in Queries : WebOpFilter(token, query)
    \/ \E token \in Tokens, by \in ByTexts, line \in AggLines, keepna \in BOOLEAN :
          WebOpGroupby(token, by, <<line>>, keepna)
    \/ \E token \in Tokens, fmt \in ExportFormats, engine \in BOOLEAN :
          Export(token, fmt, engine)

\* -------------------------------------------------------------------- cli.py
None == [some |-> FALSE, value |-> <<>>]
NoText == [some |-> FALSE, value |-> ""]
Some(v) == [some |-> TRUE, value |-> v]

\* the files an invocation can name with --json
JsonPaths == {"missing.json", "bad.json", "ab.json", "b.json"}
FileOf(path) ==
    CASE path = "bad.json" -> Some([valid |-> FALSE, table |-> TableB])
      [] path = "ab.json" -> Some([valid |-> TRUE, table |-> TableAB])
      [] path = "b.json" -> Some([valid |-> TRUE, table |-> TableB])
      [] OTHER -> None

\* the export paths an invocation can name, one of them not writable
ExportPaths == {"out/result", "readonly/result"}
Writable(path) == path = "out/result"

ColumnNames == {ColA, ColB, <<"z">>}
RECURSIVE ColumnLists(_)
ColumnLists(n) ==
    IF n = 0 THEN {<<>>}
    ELSE ColumnLists(n - 1) \cup
         {<<c>> \o t : c \in ColumnNames, t \in {l \in ColumnLists(n - 1) : Len(l) = n - 1}}

NoOpArgs == [operation |-> "info", num_rows |-> 5, include_all |-> FALSE, percentiles |-> <<>>,
             columns |-> <<>>, query |-> [kind |-> "malformed", col |-> <<>>, val |-> 0],
             by |-> <<>>, agg |-> <<>>, keepna |-> FALSE]

\* the sub-operation and its arguments, as the sub-parsers accept them
Operations ==
    {NoOpArgs}
    \cup {[NoOpArgs EXCEPT !.operation = "head", !.num_rows = n] : n \in HeadCounts}
    \cup {[NoOpArgs EXCEPT !.operation = "describe", !.include_all = a, !.percentiles = p] :
             a \in BOOLEAN, p \in {<<>>, <<50>>, <<150>>}}
    \cup {[NoOpArgs EXCEPT !.operation = "select", !.columns = c] :
             c \in ColumnLists(MaxCols) \ {<<>>}}
    \cup {[NoOpArgs EXCEPT !.operation = "filter", !.query = q] : q \in Queries}
    \cup {[NoOpArgs EXCEPT !.operation = "groupby", !.by = b, !.agg = <<l>>, !.keepna = k] :
             b \in {<<ColA>>, <<<<"z">>>>}, l \in AggLines, k \in BOOLEAN}

\* the namespaces parse_args returns; --export-format is one of its choices
Invocations ==
    {[json |-> j, op |-> o, export_to |-> e, export_format |-> f, parquet_engine |-> g] :
        j \in JsonPaths, o \in Operations,
        e \in {NoText} \cup {Some(x) : x \in ExportPaths},
        f \in {NoText} \cup {Some(x) : x \in Formats},
        g \in BOOLEAN}

CliInit ==
    /\ cpc = "idle"
    /\ cargs = None
    /\ cdf = None
    /\ result_df = None
    /\ exit_code = -1
    /\ crendered = None
    /\ cwritten = None
    /\ cstderr = <<>>

\* load_dataframe, lines 12-45
CliLoadDataframe(json_path) ==
    IF ~FileOf(json_path).some THEN Raise("FileNotFoundError", <<>>)
    ELSE LoadDataframe(FileOf(json_path).value)

\* op_filter, lines 83-87: any failure of df.query becomes a ValueError
CliOpFilter(df, query_expr) ==
    IF CoreOpFilter(df, query_expr).ok THEN CoreOpFilter(df, query_expr)
    ELSE Raise("ValueError", <<>>)

\* lines 231-245: the operation selected by the sub-command; info prints
\* its summary and yields no result table
Dispatch(df, o) ==
    CASE o.operation = "info" -> Ok(None)
      [] o.operation = "head" ->
            LET r == CoreOpHead(df, o.num_rows) IN Ok(Some(r.value))
      [] o.operation = "describe" ->
            LET r == CoreOpDescribe(df, o.include_all, o.percentiles)
            IN IF r.ok THEN Ok(Some(r.value)) ELSE r
      [] o.operation = "select" ->
            LET r == CoreOpSelect(df, o.columns)
            IN IF r.ok THEN Ok(Some(r.value)) ELSE r
      [] o.operation = "filter" ->
            LET r == CliOpFilter(df, o.query)
            IN IF r.ok THEN Ok(Some(r.value)) ELSE r
      [] o.operation = "groupby" ->
            LET r == CoreOpGroupby(df, o.by, o.agg, ~o.keepna)
            IN IF r.ok THEN Ok(Some(r.value)) ELSE r

\* export_result, lines 119-140: nothing without a path; a format outside
\* csv/json/parquet raises ValueError; mkdir or the write raises on a path
\* that cannot be written; otherwise the bytes are written
ExportResult(df, export_path, export_format, parquet_engine) ==
    LET fmt == IF export_format.some THEN Lower(export_format.value) ELSE ""
    IN IF ~export_path.some THEN Ok(None)
       ELSE IF fmt \notin Formats THEN Raise("ValueError", <<>>)
       ELSE IF ~Writable(export_path.value) THEN Raise("OSError", <<>>)
       ELSE IF fmt = "parquet" /\ ~parquet_engine THEN Raise("RuntimeError", <<>>)
       ELSE Ok(Some(ExportDataframe(df, fmt, parquet_engine).value))

\* a line of the error stream: its prefix and the exception it formats
Message(text, r) == [text |-> text, error |-> r.error, detail |-> r.detail]

\* lines 253-258 with a failing export left uncaught
AfterExport_Uncaught(r) ==
    IF r.ok THEN [exit |-> 0, warning |-> <<>>, written |-> r.value]
    ELSE [exit |-> 1, warning |-> <<>>, written |-> None]

\* lines 253-258: a failing export is reported as a warning; main returns 0
AfterExport(r) ==
    IF r.ok THEN [exit |-> 0, warning |-> <<>>, written |-> r.value]
    ELSE [exit |-> 0, written |-> None,
          warning |-> <<Message("Warning: failed to export result", r)>>]

\* lines 218-219: the process starts and its arguments parse
CliStart(a) ==
    /\ cpc = "idle"
    /\ cpc' = "load"
    /\ cargs' = Some(a)
    /\ UNCHANGED <<cdf, result_df, exit_code, crendered, cwritten, cstderr>>
    /\ UNCHANGED <<prefetchVars, guiVars>>

\* lines 221-226
CliLoad ==
    /\ cpc = "load"
    /\ LET r == CliLoadDataframe(cargs.value.json)
       IN IF r.ok
          THEN /\ cdf' = Some(r.value)
               /\ cpc' = "operate"
               /\ UNCHANGED <<exit_code, cstderr>>
          ELSE /\ cstderr' = Append(cstderr, Message("Error loading JSON", r))
               /\ exit_code' = 2
               /\ cpc' = "exited"
               /\ UNCHANGED cdf
    /\ UNCHANGED <<cargs, result_df, crendered, cwritten>>
    /\ UNCHANGED <<prefetchVars, guiVars>>

\* lines 228-248
CliOperate ==
    /\ cpc = "operate"
    /\ LET r == Dispatch(cdf.value, cargs.value.op)
       IN IF r.ok
          THEN /\ result_df' = r.value
               /\ cpc' = "render"
               /\ UNCHANGED <<exit_code, cstderr>>
          ELSE /\ cstderr' = Append(cstderr, Message("Error running operation", r))
               /\ exit_code' = 3
               /\ cpc' = "exited"
               /\ UNCHANGED result_df
    /\ UNCHANGED <<cargs, cdf, crendered, cwritten>>
    /\ UNCHANGED <<prefetchVars, guiVars>>

\* lines 251-252: the result table, if there is one, is printed
CliRender ==
    /\ cpc = "render"
    /\ crendered' = result_df
    /\ cpc' = "export"
    /\ UNCHANGED <<cargs, cdf, result_df, exit_code, cwritten, cstderr>>
    /\ UNCHANGED <<prefetchVars, guiVars>>

\* lines 251-258: the result table, if there is one, is exported; main returns
CliExport ==
    /\ cpc = "export"
    /\ LET r == IF result_df.some
                THEN ExportResult(result_df.value, cargs.value.export_to,
                                  cargs.value.export_format, cargs.value.parquet_engine)
                ELSE Ok(None)
           out == AfterExport(r)
       IN /\ cwritten' = out.written
          /\ cstderr' = cstderr \o out.warning
          /\ exit_code' = out.exit
    /\ cpc' = "exited"
    /\ UNCHANGED <<cargs, cdf, result_df, crendered>>
    /\ UNCHANGED <<prefetchVars, guiVars>>

CliNext ==
    \/ \E a \in Invocations : CliStart(a)
    \/ CliLoad
    \/ CliOperate
    \/ CliRender
    \/ CliExport

\* ------------------------------------------------------------ specification
Next ==
    \/ \E req \in Requests : StartPrefetchReject(req)
    \/ \E req \in Requests : StartPrefetchSchedule(req)
    \/ \E j \in JobIds : StartPrefetchStore(j)
    \/ \E j \in JobIds : WorkerStart(j)
    \/ \E j \in JobIds : WorkerDownload(j)
    \/ \E j \in JobIds : WorkerCopy(j)
    \/ \E j \in JobIds : WorkerSetDownloaded(j)
    \/ \E j \in JobIds : WorkerSetProgress(j)
    \/ \E j \in JobIds : WorkerSetCompleted(j)
    \/ \E j \in JobIds : WorkerSetCompletedMessage(j)
    \/ \E j \in JobIds : WorkerSetCompletedProgress(j)
    \/ \E j \in JobIds : WorkerSetFailed(j)
    \/ \E j \in JobIds : WorkerSetFailedMessage(j)
    \/ GetStatus

Init == PrefetchInit /\ GuiInit /\ CliInit

Spec == Init /\ [][Next]_vars

GuiSpec == Init /\ [][GuiNext]_vars

CliSpec == Init /\ [][CliNext]_vars

\* the scheduler runs every handler and every worker step that can run
FairSpec ==
    /\ Spec
    /\ \A j \in JobIds : WF_vars(StartPrefetchStore(j))
    /\ \A j \in JobIds : WF_vars(Worker(j))

\* ------------------------------------------------------------------ claims
FilesTimesProjects(j) == Len(args[j].files) * Max(1, Len(args[j].project_names))

InUnit(p) == Leq(Zero, p) /\ Leq(p, One)

\* C1: in every state of an accepted job the registry entry that Get Status
\* reports has total_files = files requested x max(1, projects requested).
C1_TotalFilesIsFilesTimesProjects ==
    \A j \in DOMAIN jobs : Entry(j).total_files = FilesTimesProjects(j)

\* C2: every progress a poller is given lies in [0.0, 1.0], and of two
\* successive polls of a job that both report it non-terminal the later
\* progress is at least the earlier one.
C2_ProgressBoundedAndMonotone ==
    (ppc = "respond" /\ presp.code = 200) =>
        /\ InUnit(presp.progress)
        /\ (/\ lastSeen.code = 200
            /\ lastSeen.job_id = presp.job_id
            /\ ~Terminal(lastSeen.status)
            /\ ~Terminal(presp.status))
           => Leq(lastSeen.progress, presp.progress)

\* C2 witness: two successive non-terminal polls of one job, the later one
\* reporting strictly more progress, taken while the worker is still running.
C2_Witness ==
    /\ ppc = "respond" /\ presp.code = 200 /\ lastSeen.code = 200
    /\ lastSeen.job_id = presp.job_id
    /\ lastSeen.status = "running" /\ presp.status = "running"
    /\ ~Leq(presp.progress, lastSeen.progress)
    /\ wpc[presp.job_id] \notin {"idle", "done"}

Body(r) ==
    JobStatus(r.job_id, r.status, r.progress, r.message,
              r.downloaded_files, r.total_files)

\* C3: every Job Status a poller is given equals the registry entry as it
\* stood at one instant at which no writer held the lock.
C3_SnapshotIsConsistent ==
    (ppc = "respond" /\ presp.code = 200) => Body(presp) \in committed[presp.job_id]

Forward == {<<"queued", "running">>, <<"running", "completed">>, <<"running", "failed">>}

\* C4: a job's record is created queued, the worker's first write makes it
\* running, and afterwards the status only moves queued -> running ->
\* completed or failed; a terminal status is never changed again.
C4_StatusOnlyMovesForward ==
    [][\A j \in JobIds :
        /\ (j \notin DOMAIN jobs /\ j \in DOMAIN jobs')
              => heap'[jobs'[j]].status = "queued"
        /\ (j \in DOMAIN jobs)
              => /\ j \in DOMAIN jobs'
                 /\ \/ heap'[jobs'[j]].status = Entry(j).status
                    \/ <<Entry(j).status, heap'[jobs'[j]].status>> \in Forward
        /\ (wpc[j] = "idle" /\ wpc'[j] # "idle")
              => /\ j \in DOMAIN jobs /\ Entry(j).status = "queued"
                 /\ heap'[jobs'[j]].status = "running"
      ]_vars

\* C4 witness: a job that went through queued and running and is completed,
\* its worker finished.
C4_Witness ==
    \E j \in DOMAIN jobs :
        /\ wpc[j] = "done"
        /\ Entry(j).status = "completed"
        /\ {"queued", "running", "completed"} \subseteq {r.status : r \in committed[j]}

\* C5: each requested file is downloaded at most once and copied at most
\* once per project, never copied before it was downloaded, and a job that
\* ran without a raise made exactly one download per file and one copy per
\* file and project.
C5_FetchOnceCopyMany ==
    \A j \in JobIds :
        /\ \A f \in 1..MaxFiles :
            /\ downloads[j][f] <= 1
            /\ f > Len(args[j].files) => downloads[j][f] = 0
            /\ \A p \in 1..MaxProjects :
                /\ copies[j][f][p] <= 1
                /\ copies[j][f][p] = 1 => downloads[j][f] = 1
                /\ (f > Len(args[j].files) \/ p > Len(args[j].project_names))
                      => copies[j][f][p] = 0
        /\ (wpc[j] = "done" /\ ~raised[j]) =>
              \A f \in 1..Len(args[j].files) :
                  /\ downloads[j][f] = 1
                  /\ \A p \in 1..Len(args[j].project_names) : copies[j][f][p] = 1

\* C5 witness: a job of two files and two projects finished without a raise.
C5_Witness ==
    \E j \in JobIds :
        /\ wpc[j] = "done" /\ ~raised[j]
        /\ Len(args[j].files) = 2 /\ Len(args[j].project_names) = 2
        /\ completed[j] = 4

\* C6: the registry's keys are exactly the identifiers start_prefetch has
\* returned, each from a request with no empty field; a rejected request
\* changes neither the registry nor the scheduled tasks; Get Status answers
\* 404 exactly for identifiers not yet returned; no key is ever removed.
C6_RegistryKeysAreReturnedIds ==
    /\ [](/\ DOMAIN jobs = returned
          /\ \A j \in DOMAIN jobs :
                /\ hpc[j] = "returned"
                /\ args[j].repo_id # ""
                /\ args[j].project_names # <<>>
                /\ args[j].files # <<>>
          /\ (ppc = "respond") => ((presp.code = 404) <=> ~presp.known))
    /\ [][/\ DOMAIN jobs \subseteq DOMAIN jobs'
          /\ (rejects' # rejects) => UNCHANGED <<heap, jobs, nextId, args, hpc, wpc>>
         ]_vars

\* C6 witness: a request was rejected, another accepted, and a poll of an
\* identifier never returned is answered 404.
C6_Witness ==
    /\ rejects = 1
    /\ returned # {}
    /\ ppc = "respond" /\ presp.code = 404 /\ presp.job_id \notin returned

\* C7: under fair scheduling every accepted job reaches completed or failed,
\* and a worker step that raised leads to failed with an error message.
C7_EventuallyTerminal ==
    \A j \in JobIds :
        /\ (hpc[j] # "none") ~>
              (j \in DOMAIN jobs /\ wpc[j] = "done" /\ Terminal(Entry(j).status))
        /\ raised[j] ~>
              (wpc[j] = "done" /\ Entry(j).status = "failed" /\ Entry(j).message = "Error")

\* C7 witness: a job whose copy step raised after one successful copy, left
\* failed with its message.
C7_Witness ==
    \E j \in DOMAIN jobs :
        /\ raised[j] /\ wpc[j] = "done" /\ completed[j] = 1
        /\ Entry(j).status = "failed" /\ Entry(j).message = "Error"

OperationEndpoints == {"upload", "head", "describe", "select", "filter", "groupby"}

\* C8: an export in a supported format answers with the exported bytes of
\* the token's stored result when there is one, with those of the uploaded
\* table when there is none, and with 404 only when the token has neither.
C8_ExportPrefersStoredResult ==
    (/\ guiResp.op = "export"
     /\ Lower(guiResp.input.fmt) \in Formats
     /\ (Lower(guiResp.input.fmt) = "parquet" => guiResp.input.parquet_engine))
    => LET bytes(df) == ExportDataframe(df, guiResp.input.fmt,
                                        guiResp.input.parquet_engine).value
       IN IF guiResp.token \in DOMAIN RESULTS
          THEN guiResp.code = 200 /\ guiResp.body = bytes(RESULTS[guiResp.token])
          ELSE IF guiResp.token \in DOMAIN DATASETS
          THEN guiResp.code = 200 /\ guiResp.body = bytes(DATASETS[guiResp.token])
          ELSE guiResp.code = 404

\* C9: whenever the Table Core call of an operation endpoint raised, the
\* response is a 4xx client error.
C9_CoreFailuresAreClientErrors ==
    (guiResp.op \in OperationEndpoints /\ guiResp.core_failed)
        => guiResp.code \in 400..499

\* C10: a select request whose column string parses to the empty list is
\* answered with a client error and leaves the stored results unchanged.
C10_EmptySelectionRejected ==
    [][(nreq' = nreq + 1 /\ guiResp'.op = "select" /\ guiResp'.input = <<>>)
          => (guiResp'.code \in 400..499 /\ RESULTS' = RESULTS)]_vars

\* what the invocation's arguments and files decide, read at exit
LoadFails ==
    ~FileOf(cargs.value.json).some \/ ~FileOf(cargs.value.json).value.valid
OperationRaises ==
    /\ ~LoadFails
    /\ ~Dispatch(FileOf(cargs.value.json).value.table, cargs.value.op).ok
ExportGiven == result_df.some /\ cargs.value.export_to.some
FormatIsKnown ==
    /\ cargs.value.export_format.some
    /\ cargs.value.export_format.value \in {"csv", "json", "parquet"}
ExportIOFails ==
    /\ ExportGiven
    /\ FormatIsKnown
    /\ \/ ~Writable(cargs.value.export_to.value)
       \/ cargs.value.export_format.value = "parquet" /\ ~cargs.value.parquet_engine

\* C11: an invocation whose arguments parse exits with 2 exactly when
\* loading fails (and then no operation ran), with 3 exactly when loading
\* succeeded and the operation raised (and then nothing was rendered or
\* exported), and with 0 otherwise; an export I/O failure after a successful
\* operation leaves one warning and the exit code 0.
C11_ExitCodes ==
    cpc = "exited" =>
        /\ exit_code = 2 <=> LoadFails
        /\ LoadFails => ~cdf.some /\ ~result_df.some /\ ~crendered.some /\ ~cwritten.some
        /\ exit_code = 3 <=> OperationRaises
        /\ OperationRaises => ~result_df.some /\ ~crendered.some /\ ~cwritten.some
        /\ (~LoadFails /\ ~OperationRaises) => exit_code = 0
        /\ ExportIOFails =>
              /\ exit_code = 0
              /\ Len(cstderr) = 1
              /\ cstderr[1].text = "Warning: failed to export result"
              /\ crendered = result_df
              /\ ~cwritten.some

C11_Witness ==
    /\ cpc = "exited"
    /\ ExportIOFails
    /\ ~Writable(cargs.value.export_to.value)
    /\ cargs.value.op.operation = "select"
    /\ exit_code = 0

\* C12: an invocation that has a result to export, an export path, and a
\* format other than csv, json or parquet (or no format) ends as a failed
\* invocation: a nonzero exit code and nothing reported as a mere warning.
C12_FormatMismatchIsHardError ==
    (cpc = "exited" /\ ExportGiven /\ ~FormatIsKnown)
        => /\ exit_code # 0
           /\ \A i \in 1..Len(cstderr) : cstderr[i].text # "Warning: failed to export result"

\* the requested names that the table does not have, in request order
RECURSIVE Absent(_, _)
Absent(requested, present) ==
    IF requested = <<>> THEN <<>>
    ELSE (IF Head(requested) \in present THEN <<>> ELSE <<Head(requested)>>)
         \o Absent(Tail(requested), present)

\* C13: select returns exactly the requested columns in the requested order
\* when the table has all of them; otherwise it fails with a KeyError that
\* lists exactly the requested names the table lacks, in request order; the
\* source table is the loaded one in both cases.
C13_SelectColumns ==
    (cpc \in {"render", "export", "exited"} /\ cdf.some
        /\ cargs.value.op.operation = "select") =>
        LET requested == cargs.value.op.columns
            source == FileOf(cargs.value.json).value.table
            absent == Absent(requested, Range(source.columns))
        IN /\ cdf.value = source
           /\ IF absent = <<>>
              THEN /\ result_df.some
                   /\ result_df.value.columns = requested
                   /\ Len(result_df.value.rows) = Len(source.rows)
                   /\ \A i \in 1..Len(source.rows) :
                         /\ DOMAIN result_df.value.rows[i] = Range(requested)
                         /\ \A c \in Range(requested) :
                               result_df.value.rows[i][c] = source.rows[i][c]
                   /\ \A i \in 1..Len(cstderr) : cstderr[i].text # "Error running operation"
              ELSE /\ ~result_df.some
                   /\ Len(cstderr) = 1
                   /\ cstderr[1].error = "KeyError"
                   /\ cstderr[1].detail = absent

C13_Witness ==
    /\ cpc = "exited"
    /\ cargs.value.json = "ab.json"
    /\ cargs.value.op.operation = "select"
    /\ cargs.value.op.columns = <<ColB, <<"z">>>>
    /\ Len(cstderr) = 1
    /\ cstderr[1].detail = <<<<"z">>>>

TableOperations == {"head", "describe", "select", "filter", "groupby"}

\* result is what the operation returns for the table df and some input of
\* the request (for select, the column list the request parsed to)
ComputedFrom(op, df, input, result) ==
    CASE op = "head" ->
            \E n \in HeadCounts : result = CoreOpHead(df, n).value
      [] op = "describe" ->
            \E all \in BOOLEAN, pt \in PercentileTexts :
               LET pl == IF Strip(pt) # <<>> /\ ParsePercentiles(pt).ok
                         THEN ParsePercentiles(pt).value ELSE <<>>
                   r == CoreOpDescribe(df, all, pl)
               IN r.ok /\ result = r.value
      [] op = "select" ->
            CoreOpSelect(df, input).ok /\ result = CoreOpSelect(df, input).value
      [] op = "filter" ->
            \E q \in Queries :
               CoreOpFilter(df, q).ok /\ result = CoreOpFilter(df, q).value
      [] op = "groupby" ->
            \E by \in ByTexts, line \in AggLines, keepna \in BOOLEAN :
               LET r == CoreOpGroupby(df, SplitColumns(by), <<line>>, ~keepna)
               IN r.ok /\ result = r.value
      [] OTHER -> FALSE

\* C14: no request replaces or removes a stored dataset; a dataset appears
\* only by an upload, under the token the upload answers with and without a
\* result; an operation request changes no other token's result, on success
\* stores under its token a result computed from that token's dataset, and
\* otherwise leaves the results as they were; pages and exports change no
\* result; every token with a result has a dataset.
C14_RegistriesAreFramed ==
    [][nreq' = nreq + 1 =>
        /\ \A t \in DOMAIN DATASETS :
              t \in DOMAIN DATASETS' /\ DATASETS'[t] = DATASETS[t]
        /\ \A t \in DOMAIN DATASETS' \ DOMAIN DATASETS :
              /\ guiResp'.op = "upload"
              /\ guiResp'.token = t
              /\ t \notin DOMAIN RESULTS'
        /\ guiResp'.op = "upload" =>
              \A u \in DOMAIN RESULTS :
                 u \in DOMAIN RESULTS' /\ RESULTS'[u] = RESULTS[u]
        /\ guiResp'.op \in TableOperations =>
              LET t == guiResp'.token
              IN /\ \A u \in Tokens \ {t} :
                       /\ u \in DOMAIN RESULTS' <=> u \in DOMAIN RESULTS
                       /\ u \in DOMAIN RESULTS => RESULTS'[u] = RESULTS[u]
                 /\ IF guiResp'.code = 303
                    THEN /\ t \in DOMAIN DATASETS
                         /\ t \in DOMAIN RESULTS'
                         /\ ComputedFrom(guiResp'.op, DATASETS[t], guiResp'.input,
                                         RESULTS'[t])
                    ELSE RESULTS' = RESULTS
        /\ guiResp'.op \in {"dataset_page", "export"} => RESULTS' = RESULTS
        /\ DOMAIN RESULTS' \subseteq DOMAIN DATASETS']_vars

C14_Witness ==
    /\ DOMAIN DATASETS = {1, 2}
    /\ DATASETS[1] = TableAB
    /\ DATASETS[2] = TableB
    /\ 1 \in DOMAIN RESULTS
    /\ 2 \notin DOMAIN RESULTS
    /\ RESULTS[1] # DATASETS[1]
    /\ guiResp.op = "filter"
    /\ guiResp.token = 1
    /\ guiResp.code = 400

====
